---- MODULE Spec2Model ----
(***************************************************************************)
(* A model of shanoir_downloader.py: the process-wide token state, the     *)
(* authenticated request executor rest_request with its single refresh     *)
(* retry, the download and search operations built on it, and the mode     *)
(* selection of the command-line entry point.                              *)
(*                                                                         *)
(* The program is sequential.  One step of the model is either one HTTP    *)
(* exchange made inside rest_request (together with the code that handles  *)
(* its outcome up to the next exchange), or the code a caller runs between *)
(* two logical requests.  The servers are the environment: each exchange   *)
(* draws its outcome (a transport error, or a status with a body and       *)
(* headers) from a small set.  Token fields of a token-endpoint body are   *)
(* either absent or strings.                                               *)
(*                                                                         *)
(* Spec is the whole program from the entry point on, started after        *)
(* initialize read a proxy.properties that disables the proxy.  SpecCall   *)
(* is one call of rest_request with any request type.  SpecProxy is        *)
(* initialize reading a proxy.properties file line by line (--proxy_url    *)
(* not given).                                                             *)
(***************************************************************************)
EXTENDS Integers, Sequences, FiniteSets, TLC

(* ------------------------------ bounds --------------------------------- *)

\* Largest number of entries in the "content" array of a search result page.
MaxItems == 2

\* The hard cap of download_datasets.
MaxBatch == 50

(* --------------------------- value domains ----------------------------- *)

\* Python's None.
None == "None"

\* A key that a JSON body or a header mapping does not hold.
Absent == "<absent>"

\* Access tokens and refresh tokens the identity provider may hand out.
AccessTokens == {"A", "B"}
RefreshTokens == {"R", "S"}

\* HTTP statuses the servers answer with.
Statuses == {200, 204, 401, 404}

\* A transport-level failure of requests.get / requests.post.
Transport == "RequestException"

InvalidCredentials == "Invalid user credentials"

\* Bodies of the token endpoint: whether the text parses as JSON, and the
\* fields the code reads from it.
\* A body that is not JSON has no fields.
NoBody == [json |-> FALSE, error_description |-> Absent,
           access_token |-> Absent, refresh_token |-> Absent]

TokenBodies ==
    {NoBody} \cup
    [json : {TRUE},
     error_description : {Absent, InvalidCredentials},
     access_token : AccessTokens \cup {Absent},
     refresh_token : RefreshTokens \cup {Absent}]

\* Content-Disposition headers of API responses: none, one without a file
\* name, one with a file name.
ContentDispositions == {Absent, "attachment", "attachment; filename=scan.zip"}

\* n identifiers, as read from a file of n lines or from a lookup answer.
IdList(n) == [i \in 1..n |-> ToString(i)]

\* The lengths of identifier lists the model draws: around the cap.
BatchSizes == {1, MaxBatch, MaxBatch + 1}

\* Result pages of the search endpoint: the datasetId of each content entry.
ResultPages == {IdList(n) : n \in 0..MaxItems}

(* ------------------------------- state --------------------------------- *)

VARIABLES
    args,           \* the parsed command line
    idfile,         \* the lines of the file --dataset_ids names, Absent if no such file
    pc,             \* position of the main program
    access_token,   \* module global, line 147
    refresh_token,  \* module global, line 148
    rr,             \* position inside rest_request: none, entry, send, refresh, retry, done
    req,            \* the logical request rest_request is serving
    headers,        \* the headers dict of rest_request
    response,       \* what rest_request handed to its caller (response or exception)
    items,          \* the content array download_search_results iterates
    idx,            \* index of the item being downloaded
    trace,          \* the HTTP exchanges of the current logical call, in order
    nPassword,      \* password-grant calls issued by the process
    nGranted,       \* password-grant calls that returned a token
    nRefresh,       \* refresh-grant calls issued by the process
    nApi,           \* HTTP attempts to API endpoints issued by the process
    n401,           \* 401 responses received from API endpoints
    attempted,      \* items of the result page for which an API attempt was issued
    failed,         \* items of the result page whose download raised
    files,          \* names of the files written
    nWrites,        \* number of file writes
    out,            \* messages printed or logged
    proxy_settings, \* the file proxy.properties of the configuration folder
    lineno,         \* lines of proxy.properties that initialize has read
    proxy_config,   \* the dict initialize fills from the file, line 114
    proxy_url,      \* local of initialize, line 94
    proxies         \* the 'proxies' entry of the configuration, lines 135-144

vars == <<args, idfile, pc, access_token, refresh_token, rr, req, headers, response,
          items, idx, trace, nPassword, nGranted, nRefresh, nApi, n401,
          attempted, failed, files, nWrites, out,
          proxy_settings, lineno, proxy_config, proxy_url, proxies>>

proxyVars == <<proxy_settings, lineno, proxy_config, proxy_url, proxies>>

tokenVars == <<access_token, refresh_token>>
counters == <<nPassword, nGranted, nRefresh, nApi, n401>>
callVars == <<rr, req, headers, response, trace>>
loopVars == <<items, idx, failed>>
fileVars == <<files, nWrites>>

(* --------------------------- requests ---------------------------------- *)

\* The format query parameter, lines 297, 308, 318.
FileFormat(format) == IF format = "nifti" THEN "nii" ELSE "dcm"

NoParams == [datasetIds |-> <<>>, format |-> "", studyId |-> ""]

\* A logical request: what a caller passes to rest_get / rest_post.  url is
\* the path below https://<domain>/shanoir-ng/datasets/ and its arguments.
Request(rtype, path, a, b, params, data) ==
    [rtype |-> rtype, url |-> [path |-> path, a |-> a, b |-> b],
     params |-> params, data |-> data, raise_for_status |-> TRUE]

NoRequest == Request("", "", "", "", NoParams, "")

\* download_dataset, lines 297-299.
DownloadRequest(dataset_id, format) ==
    Request("get", "datasets/download", dataset_id, "",
            [NoParams EXCEPT !.format = FileFormat(format)], "")

\* Mutant: the batch is asked for with a GET.
MassiveDownloadRequest_get(dataset_ids, format) ==
    Request("get", "datasets/massiveDownload", "", "",
            [NoParams EXCEPT !.datasetIds = dataset_ids,
                             !.format = FileFormat(format)], "")

\* download_datasets, lines 308-312.
MassiveDownloadRequest(dataset_ids, format) ==
    Request("post", "datasets/massiveDownload", "", "",
            [NoParams EXCEPT !.datasetIds = dataset_ids,
                             !.format = FileFormat(format)], "")

\* download_dataset_by_study, lines 318-320.
StudyDownloadRequest(study_id, format) ==
    Request("get", "datasets/massiveDownloadByStudy", "", "",
            [NoParams EXCEPT !.studyId = study_id,
                             !.format = FileFormat(format)], "")

\* find_dataset_ids_by_subject_id, lines 326-327.
SubjectLookupRequest(subject_id) ==
    Request("get", "datasets/subject", subject_id, "", NoParams, "")

\* find_dataset_ids_by_subject_id_study_id, lines 332-333.
SubjectStudyLookupRequest(subject_id, study_id) ==
    Request("get", "datasets/subject/study", subject_id, study_id, NoParams, "")

\* solr_search, lines 425-433.
SolrRequest(search_text) ==
    Request("post", "solr", "", "", NoParams, search_text)

DownloadPaths ==
    {"datasets/download", "datasets/massiveDownload",
     "datasets/massiveDownloadByStudy"}
LookupPaths == {"datasets/subject", "datasets/subject/study"}

(* ------------------------ the servers' answers ------------------------- *)

NoJson == [ok |-> FALSE, val |-> <<>>]
Json(v) == [ok |-> TRUE, val |-> v]

\* What response.json() of an API answer may yield, by endpoint.
JsonBodies(url) ==
    IF url.path = "solr" THEN {NoJson} \cup {Json(p) : p \in ResultPages}
    ELSE IF url.path \in LookupPaths
         THEN {NoJson} \cup {Json(IdList(n)) : n \in BatchSizes}
    ELSE {NoJson}

\* The Content-Disposition header of an API answer: download endpoints send
\* one, or not, with the answers that are not errors.
DispositionsOf(url, status) ==
    IF url.path \in DownloadPaths /\ status < 400 THEN ContentDispositions
    ELSE {Absent}

\* requests.get / requests.post raised instead of returning.
TransportError ==
    [raised |-> TRUE, isNone |-> FALSE, status |-> 0, cd |-> Absent, json |-> NoJson]

\* perform_rest_request returned None (line 233, 239-241).
NoneResponse ==
    [raised |-> FALSE, isNone |-> TRUE, status |-> 0, cd |-> Absent, json |-> NoJson]

ApiOutcomes(url) ==
    {TransportError} \cup
    UNION {{[raised |-> FALSE, isNone |-> FALSE, status |-> s, cd |-> c, json |-> j] :
               c \in DispositionsOf(url, s), j \in JsonBodies(url)} : s \in Statuses}

TokenStatuses == {200, 401}

TokenOutcomes ==
    {[raised |-> TRUE, status |-> 0, body |-> NoBody]} \cup
    {[raised |-> FALSE, status |-> s, body |-> b] :
        s \in TokenStatuses, b \in TokenBodies}

(* ----------------------- the record of exchanges ----------------------- *)

\* One HTTP exchange with an API endpoint: the request as sent, the token
\* stored when it was sent, and the answer.
ApiEvent(r, h, stored, o) ==
    [ep |-> "api", grant |-> "", rtype |-> r.rtype, url |-> r.url,
     params |-> r.params, data |-> r.data, auth |-> h.Authorization,
     stored |-> stored, rt |-> "", raised |-> o.raised, status |-> o.status,
     cd |-> o.cd, tok |-> "", newrt |-> "", err |-> ""]

\* The headers of the calls to the token endpoint, lines 166 and 224.
TokenHeaders ==
    [Authorization |-> Absent, content_type |-> "application/x-www-form-urlencoded"]

\* One HTTP exchange with the token endpoint: the grant type, the refresh
\* token sent, and the answer.
TokenEvent(grant, rt, stored, t) ==
    [ep |-> "token", grant |-> grant, rtype |-> "post",
     url |-> [path |-> "auth/token", a |-> "", b |-> ""],
     params |-> NoParams, data |-> "", auth |-> TokenHeaders.Authorization,
     stored |-> stored, rt |-> rt, raised |-> t.raised, status |-> t.status,
     cd |-> Absent, tok |-> t.body.access_token,
     newrt |-> t.body.refresh_token,
     err |-> t.body.error_description]

ApiEvents(tr) == SelectSeq(tr, LAMBDA e : e.ep = "api")
RefreshEvents(tr) == SelectSeq(tr, LAMBDA e : e.ep = "token" /\ e.grant = "refresh_token")
PasswordEvents(tr) == SelectSeq(tr, LAMBDA e : e.ep = "token" /\ e.grant = "password")

(* --------------------------- token manager ----------------------------- *)

\* What a function call ends in: it returns a value, raises, or exits.
Returns(v) == [how |-> "return", val |-> v, exc |-> "", code |-> 0]
Raises(e) == [how |-> "raise", val |-> None, exc |-> e, code |-> 0]
Exits(c) == [how |-> "exit", val |-> None, exc |-> "", code |-> c]

\* Mutant: the status of the answer is not checked.
FailedToConnect_never(t) == FALSE

\* ask_access_token, line 169: the answer is not a 200.
FailedToConnect(t) == t.status # 200

\* ask_access_token, line 174.
BadCredentials(body) == body.error_description = InvalidCredentials

\* ask_access_token, lines 168-179, from the answer t of the token endpoint:
\* how the call ends, what it prints, and the refresh token it leaves stored.
ask_access_token(t, old_refresh) ==
    IF t.raised THEN
        [end |-> Raises(Transport), print |-> {}, refresh_token |-> old_refresh]
    ELSE IF FailedToConnect(t) THEN
        [end |-> Exits(1), print |-> {"Failed to connect"},
         refresh_token |-> old_refresh]
    ELSE IF ~t.body.json THEN
        [end |-> Raises("JSONDecodeError"), print |-> {},
         refresh_token |-> old_refresh]
    ELSE IF BadCredentials(t.body) THEN
        [end |-> Exits(1), print |-> {"bad username or password"},
         refresh_token |-> old_refresh]
    ELSE IF t.body.refresh_token = Absent THEN
        [end |-> Raises("KeyError"), print |-> {}, refresh_token |-> old_refresh]
    ELSE IF t.body.access_token = Absent THEN
        [end |-> Raises("KeyError"), print |-> {},
         refresh_token |-> t.body.refresh_token]
    ELSE
        [end |-> Returns(t.body.access_token), print |-> {},
         refresh_token |-> t.body.refresh_token]

\* Mutant: a body without access_token gives None instead of raising.
refresh_access_token_get(t) ==
    IF t.raised THEN [end |-> Raises(Transport), log |-> {}]
    ELSE IF t.body.access_token = Absent THEN [end |-> Returns(None), log |-> {}]
    ELSE [end |-> Returns(t.body.access_token), log |-> {}]

\* refresh_access_token, lines 226-230, from the answer t of the token
\* endpoint: how the call ends and what it logs.
refresh_access_token(t) ==
    IF t.raised THEN [end |-> Raises(Transport), log |-> {}]
    ELSE
        LET log == IF t.status # 200 THEN {"response status"} ELSE {}
        IN  IF ~t.body.json THEN [end |-> Raises("JSONDecodeError"), log |-> log]
            ELSE IF t.body.access_token = Absent
                 THEN [end |-> Raises("KeyError"), log |-> log]
            ELSE [end |-> Returns(t.body.access_token), log |-> log]

(* ------------------------- request executor ---------------------------- *)

\* Mutant: the module starts with a token already in place.
InitialAccessToken_preset == "A"

\* The module global access_token as the module is loaded, line 147.
InitialAccessToken == None

\* The module global refresh_token as the module is loaded, line 148.
InitialRefreshToken == None

\* Mutant: the token is asked for on every call.
NoToken_always(token) == TRUE

\* rest_request, line 247.
NoToken(token) == token = None

\* rest_request, line 250: 'Bearer ' + access_token is a TypeError unless
\* the token is a string.
IsString(token) == token # None

\* Mutant: the token is sent without the Bearer scheme.
Bearer_raw(token) == token

\* rest_request, lines 249-252 and 257.
Bearer(token) == "Bearer " \o token

NoHeaders == [Authorization |-> Absent, content_type |-> Absent]

\* rest_request, lines 249-252.
NewHeaders(token) ==
    [Authorization |-> Bearer(token), content_type |-> "application/json"]

\* Mutant: the header is not updated after the refresh.
RefreshedHeaders_stale(h, token) == h

\* rest_request, line 257.
RefreshedHeaders(h, token) == [h EXCEPT !.Authorization = Bearer(token)]

\* Mutant: the refreshed token is kept in a local only.
StoredAfterRefresh_local(old, new) == old

\* rest_request, lines 246 and 256: the global access_token after
\* refresh_access_token returned new.
StoredAfterRefresh(old, new) == new

\* Mutant: the refresh token of the refresh answer replaces the stored one.
RefreshTokenAfterRefresh_rotate(old, body) ==
    IF body.refresh_token # Absent THEN body.refresh_token ELSE old

\* refresh_access_token, lines 217-230: the global refresh_token after the
\* call answered with body; the function only reads it.
RefreshTokenAfterRefresh(old, body) == old

\* perform_rest_request, lines 232-241: the answers a call may get.
perform_rest_request(rtype, url) ==
    IF rtype \in {"get", "post"} THEN ApiOutcomes(url) ELSE {NoneResponse}

\* Mutant: every error status asks for a refresh.
TokenOutdated_anyError(status) == status >= 400

\* rest_request, line 255: the first answer asks for a refresh.
TokenOutdated(status) == status = 401

\* Mutant: the check of line 255 is a loop.
RefreshAgain_while(status) == status = 401

\* rest_request, lines 258-259: the answer to the reissued request is not
\* examined for another refresh.
RefreshAgain(status) == FALSE

\* Mutant: only server errors count as error statuses.
IsErrorStatus_server(status) == 500 <= status /\ status < 600

\* requests' Response.raise_for_status, called at lines 259-260.
IsErrorStatus(status) == 400 <= status /\ status < 600

\* Mutant: the status of the final answer is never raised.
RaiseForStatus_never(flag, status) == FALSE

RaiseForStatus(flag, status) == flag /\ IsErrorStatus(status)

\* What rest_request hands to its caller.
NoResponse ==
    [kind |-> "none", exc |-> "", status |-> 0, cd |-> Absent, json |-> NoJson]
Response(o) ==
    [kind |-> "response", exc |-> "", status |-> o.status, cd |-> o.cd,
     json |-> o.json]
\* requests.HTTPError carries the response it was raised for.
HTTPError(o) ==
    [kind |-> "exception", exc |-> "HTTPError", status |-> o.status,
     cd |-> o.cd, json |-> o.json]
Exception(e) ==
    [kind |-> "exception", exc |-> e, status |-> 0, cd |-> Absent, json |-> NoJson]

\* rest_request, lines 259-261.
Finish(r, o) ==
    IF RaiseForStatus(r.raise_for_status, o.status) THEN HTTPError(o)
    ELSE Response(o)

(* ---------------- initialize, proxy settings, 94-144 ------------------- *)

\* A line of proxy.properties is a sequence of tokens: a token is one of the
\* characters '=', '.', ' ', line end, or a run of characters free of them.
\* Join gives the string the tokens spell.
RECURSIVE Join(_)
Join(toks) == IF toks = <<>> THEN "" ELSE Head(toks) \o Join(Tail(toks))

Whitespace == {" ", "\n"}

\* str.split(sep), lines 121 and 124: the pieces between the separators.
RECURSIVE Split(_, _)
Split(toks, sep) ==
    IF \A i \in 1..Len(toks) : toks[i] # sep THEN <<toks>>
    ELSE LET i == CHOOSE k \in 1..Len(toks) :
                      toks[k] = sep /\ \A j \in 1..(k - 1) : toks[j] # sep
         IN <<SubSeq(toks, 1, i - 1)>> \o Split(SubSeq(toks, i + 1, Len(toks)), sep)

\* str.strip(), line 123: white space is removed at both ends.
RECURSIVE Strip(_)
Strip(toks) ==
    IF toks = <<>> THEN toks
    ELSE IF Head(toks) \in Whitespace THEN Strip(Tail(toks))
    ELSE IF toks[Len(toks)] \in Whitespace THEN Strip(SubSeq(toks, 1, Len(toks) - 1))
    ELSE toks

\* line.startswith('proxy.'), line 120.
StartsWithProxy(line) == Len(line) >= 2 /\ line[1] = "proxy" /\ line[2] = "."

\* The line "proxy.<key>=<value>" of a properties file, with its line end.
ProxyLine(key, value) == <<"proxy", ".", key, "=">> \o value \o <<"\n">>

\* The values a proxy.properties file may give a key; a value may be empty,
\* and a password may hold a '='.
ProxyValues(key) ==
    CASE key = "enabled" -> {<<"true">>, <<"false">>}
      [] key = "user" -> {<<>>, <<"u">>}
      [] key = "password" -> {<<>>, <<"p">>, <<"p", "=", "q">>}
      [] key = "host" -> {<<"h">>}
      [] key = "port" -> {<<"8080">>}

\* No line or one line for a key.
OptionalLine(key) == {<<>>} \cup {<<ProxyLine(key, v)>> : v \in ProxyValues(key)}

\* A line that is not a proxy setting.
CommentLine == <<"#", " ", "settings", "\n">>

\* proxy_settings, line 112: no such file, or the lines of the file.
NoProxyFile == [exists |-> FALSE, lines |-> <<>>]
ProxyFiles ==
    {NoProxyFile} \cup
    {[exists |-> TRUE, lines |-> c \o e \o u \o p \o h \o o] :
        c \in {<<>>, <<CommentLine>>}, e \in OptionalLine("enabled"),
        u \in OptionalLine("user"), p \in OptionalLine("password"),
        h \in OptionalLine("host"), o \in OptionalLine("port")}

\* An empty dict, line 114.
EmptyDict == [k \in {} |-> ""]

\* proxies = None, line 135. The dict of lines 139-142 always holds a key,
\* so the mapping without keys stands for None.
NoProxies == EmptyDict

\* Lines 119-125: what one line of the file does to proxy_config. A line
\* 'proxy...' without '=' raises at line 123.
LineRaises(line) == StartsWithProxy(line) /\ Len(Split(line, "=")) < 2
ReadLine(cfg, line) ==
    IF ~StartsWithProxy(line) THEN cfg
    ELSE LET line_s == Split(line, "=")
             proxy_value == Join(Strip(line_s[2]))
             key_s == Split(line_s[1], ".")
             proxy_key == Join(key_s[Len(key_s)])
         IN (proxy_key :> proxy_value) @@ cfg

\* Line 127.
ProxyEnabled(cfg) == "enabled" \notin DOMAIN cfg \/ cfg["enabled"] = "true"

\* Line 128.
HasCredentials(cfg) ==
    /\ "user" \in DOMAIN cfg /\ cfg["user"] # ""
    /\ "password" \in DOMAIN cfg /\ cfg["password"] # ""

\* Lines 127-130: the proxy_url a filled proxy_config gives, and the
\* exception of line 130: KeyError for a missing host or port, TypeError
\* when proxy_url is still None.
ProxyUrl(cfg) ==
    IF ~ProxyEnabled(cfg) THEN [raised |-> "", url |-> None]
    ELSE LET credentials == IF HasCredentials(cfg)
                            THEN cfg["user"] \o ":" \o cfg["password"]
                            ELSE None
         IN IF "host" \notin DOMAIN cfg \/ "port" \notin DOMAIN cfg
            THEN [raised |-> "KeyError", url |-> credentials]
            ELSE IF credentials = None
            THEN [raised |-> "TypeError", url |-> credentials]
            ELSE [raised |-> "",
                  url |-> credentials \o "@" \o cfg["host"] \o ":" \o cfg["port"]]

\* Lines 135-142: the 'https' entry is commented out.
Proxies(url) ==
    IF url \in {None, ""} THEN NoProxies ELSE ("http" :> ("http://" \o url))

\* The state initialize leaves when the configuration folder holds a
\* proxy.properties that disables the proxy: no message, no proxies.
ProxyDisabled ==
    /\ proxy_settings = [exists |-> TRUE, lines |-> <<ProxyLine("enabled", <<"false">>)>>]
    /\ lineno = 1
    /\ proxy_config = ("enabled" :> "false")
    /\ proxy_url = None
    /\ proxies = NoProxies

\* The loop of lines 118-125, one line of the file.
initialize_line ==
    /\ pc = "initialize"
    /\ proxy_settings.exists
    /\ lineno < Len(proxy_settings.lines)
    /\ LET line == proxy_settings.lines[lineno + 1] IN
          IF LineRaises(line) THEN
             /\ pc' = "crash"
             /\ out' = out \cup {"IndexError"}
             /\ UNCHANGED <<lineno, proxy_config>>
          ELSE
             /\ proxy_config' = ReadLine(proxy_config, line)
             /\ lineno' = lineno + 1
             /\ UNCHANGED <<pc, out>>
    /\ UNCHANGED <<proxy_settings, proxy_url, proxies, args, idfile, tokenVars,
                   counters, callVars, attempted, loopVars, fileVars>>

\* Lines 127-144, after the last line of the file was read, or lines 131-144
\* when there is no file: initialize returns the configuration, or raises
\* and the program ends with the traceback.
initialize_return ==
    /\ pc = "initialize"
    /\ ~proxy_settings.exists \/ lineno = Len(proxy_settings.lines)
    /\ IF ~proxy_settings.exists THEN
          /\ pc' = "main"
          /\ out' = out \cup {"Proxy configuration file not found. Proxy will be ignored."}
          /\ proxies' = Proxies(proxy_url)
          /\ UNCHANGED proxy_url
       ELSE LET r == ProxyUrl(proxy_config) IN
          /\ proxy_url' = r.url
          /\ IF r.raised # "" THEN
                /\ pc' = "crash"
                /\ out' = out \cup {r.raised}
                /\ UNCHANGED proxies
             ELSE
                /\ pc' = "main"
                /\ proxies' = Proxies(r.url)
                /\ UNCHANGED out
    /\ UNCHANGED <<proxy_settings, lineno, proxy_config, args, idfile, tokenVars,
                   counters, callVars, attempted, loopVars, fileVars>>

(* ------------------------------- Init ---------------------------------- *)

\* The command lines: argparse's defaults are None for --search_text and ''
\* for the four id arguments (lines 39, 51-54).
AllArgs ==
    [search_text : {None, "brain"},
     dataset_id : {"", "7"},
     dataset_ids : {"", "ids.txt"},
     study_id : {"", "3"},
     subject_id : {"", "5"},
     format : {"nifti", "dicom"}]

\* The command lines the model starts from: every combination of id
\* arguments, and the search with and without an id argument beside it.
ArgsSet ==
    {a \in AllArgs : a.search_text = None \/
                     (a.dataset_ids = "" /\ a.study_id = "" /\ a.subject_id = "")}

Init ==
    /\ args \in ArgsSet
    /\ idfile \in IF args.dataset_ids = "" THEN {<<Absent>>}
                  ELSE {<<Absent>>} \cup {IdList(n) : n \in BatchSizes}
    /\ pc = "main"
    /\ access_token = InitialAccessToken
    /\ refresh_token = InitialRefreshToken
    /\ rr = "none"
    /\ req = NoRequest
    /\ headers = NoHeaders
    /\ response = NoResponse
    /\ items = <<>>
    /\ idx = 0
    /\ trace = <<>>
    /\ nPassword = 0
    /\ nGranted = 0
    /\ nRefresh = 0
    /\ nApi = 0
    /\ n401 = 0
    /\ attempted = {}
    /\ failed = {}
    /\ files = {}
    /\ nWrites = 0
    /\ out = {}
    /\ ProxyDisabled

\* Path.exists() of the --dataset_ids file, line 351.
FileExists(f) == f # <<Absent>>

(* ------------------- steps shared by the actions ----------------------- *)

\* A caller enters rest_request with request r; p is where the caller is.
StartRequest(p, r) ==
    /\ pc' = p
    /\ rr' = "entry"
    /\ req' = r
    /\ headers' = NoHeaders
    /\ response' = NoResponse
    /\ trace' = <<>>

\* The program ends at p without entering rest_request again.
EndProgram(p) ==
    /\ pc' = p
    /\ rr' = "none"
    /\ UNCHANGED <<req, headers, response, trace>>

\* rest_request ends: resp is the response returned or the exception raised.
ReturnToCaller(resp) ==
    /\ rr' = "done"
    /\ response' = resp
    /\ UNCHANGED pc

\* sys.exit(code) inside rest_request.
SystemExit(code) ==
    /\ pc' = IF code = 0 THEN "exit0" ELSE "exit1"
    /\ rr' = "none"
    /\ UNCHANGED response

\* The items of the result page that got an API attempt, with one more
\* attempt issued now.
Attempted == IF pc = "item" THEN attempted \cup {idx} ELSE attempted

(* --------------------- rest_request, lines 245-261 --------------------- *)

\* Lines 246-248: obtain the first token when none is held.
rest_request_token ==
    /\ rr = "entry"
    /\ IF NoToken(access_token) THEN
          \E password_read \in BOOLEAN :
             IF ~password_read THEN
                \* lines 152-155: reading the password failed
                /\ SystemExit(0)
                /\ UNCHANGED <<proxyVars, args, idfile, req, headers, trace, tokenVars,
                               counters, attempted, loopVars, fileVars, out>>
             ELSE
                \E t \in TokenOutcomes :
                   LET a == ask_access_token(t, refresh_token) IN
                   /\ trace' = Append(trace, TokenEvent("password", "", access_token, t))
                   /\ nPassword' = nPassword + 1
                   /\ refresh_token' = a.refresh_token
                   /\ out' = out \cup a.print
                   /\ IF a.end.how = "return" THEN
                         /\ access_token' = a.end.val
                         /\ nGranted' = nGranted + 1
                         /\ rr' = "send"
                         /\ UNCHANGED <<pc, response>>
                      ELSE IF a.end.how = "raise" THEN
                         /\ ReturnToCaller(Exception(a.end.exc))
                         /\ UNCHANGED <<access_token, nGranted>>
                      ELSE
                         /\ SystemExit(a.end.code)
                         /\ UNCHANGED <<access_token, nGranted>>
                   /\ UNCHANGED <<proxyVars, args, idfile, req, headers, nRefresh, nApi, n401,
                                  attempted, loopVars, fileVars>>
       ELSE
          /\ rr' = "send"
          /\ UNCHANGED <<proxyVars, args, idfile, pc, req, headers, response, trace, tokenVars,
                         counters, attempted, loopVars, fileVars, out>>

\* Lines 249-255 and, when no refresh is needed, 259-261: the first attempt.
rest_request_send ==
    /\ rr = "send"
    /\ IF ~IsString(access_token) THEN
          /\ ReturnToCaller(Exception("TypeError"))
          /\ UNCHANGED <<headers, trace, nApi, n401, attempted, out>>
       ELSE
          \E o \in perform_rest_request(req.rtype, req.url) :
             /\ headers' = NewHeaders(access_token)
             /\ IF o.isNone THEN
                   \* line 239: nothing was sent; line 255 reads None.status_code
                   /\ ReturnToCaller(Exception("AttributeError"))
                   /\ out' = out \cup {"unimplemented request type"}
                   /\ UNCHANGED <<trace, nApi, n401, attempted>>
                ELSE
                   /\ trace' = Append(trace, ApiEvent(req, headers', access_token, o))
                   /\ nApi' = nApi + 1
                   /\ attempted' = Attempted
                   /\ out' = out
                   /\ IF o.raised THEN
                         /\ ReturnToCaller(Exception(Transport))
                         /\ n401' = n401
                      ELSE IF TokenOutdated(o.status) THEN
                         /\ rr' = "refresh"
                         /\ n401' = n401 + 1
                         /\ UNCHANGED <<pc, response>>
                      ELSE
                         /\ ReturnToCaller(Finish(req, o))
                         /\ n401' = n401
    /\ UNCHANGED <<proxyVars, args, idfile, req, tokenVars, nPassword, nGranted, nRefresh,
                   loopVars, fileVars>>

\* Lines 256-257: refresh the token and update the header.
rest_request_refresh ==
    /\ rr = "refresh"
    /\ \E t \in TokenOutcomes :
          LET a == refresh_access_token(t) IN
          /\ trace' = Append(trace, TokenEvent("refresh_token", refresh_token, access_token, t))
          /\ nRefresh' = nRefresh + 1
          /\ out' = out \cup a.log
          /\ refresh_token' = RefreshTokenAfterRefresh(refresh_token, t.body)
          /\ IF a.end.how = "return" THEN
                /\ access_token' = StoredAfterRefresh(access_token, a.end.val)
                /\ headers' = RefreshedHeaders(headers, a.end.val)
                /\ rr' = "retry"
                /\ UNCHANGED <<pc, response>>
             ELSE
                /\ ReturnToCaller(Exception(a.end.exc))
                /\ UNCHANGED <<access_token, headers>>
    /\ UNCHANGED <<proxyVars, args, idfile, req, nPassword, nGranted, nApi, n401,
                   attempted, loopVars, fileVars>>

\* Lines 258-261: reissue the request once; its answer is final.
rest_request_retry ==
    /\ rr = "retry"
    /\ \E o \in perform_rest_request(req.rtype, req.url) \ {NoneResponse} :
          /\ trace' = Append(trace, ApiEvent(req, headers, access_token, o))
          /\ nApi' = nApi + 1
          /\ attempted' = Attempted
          /\ n401' = IF ~o.raised /\ o.status = 401 THEN n401 + 1 ELSE n401
          /\ IF o.raised THEN ReturnToCaller(Exception(Transport))
             ELSE IF RefreshAgain(o.status) THEN
                /\ rr' = "refresh"
                /\ UNCHANGED <<pc, response>>
             ELSE ReturnToCaller(Finish(req, o))
    /\ UNCHANGED <<proxyVars, args, idfile, req, headers, tokenVars, nPassword, nGranted,
                   nRefresh, loopVars, fileVars, out>>

(* ------------------------- download operations ------------------------- *)

\* re.findall('filename=(.+)', header), line 184.
FindFilenames(cd) ==
    IF cd = "attachment; filename=scan.zip" THEN <<"scan.zip">> ELSE <<>>

\* Mutant: a default file name is used when the header gives none.
get_filename_from_response_default(resp) ==
    IF resp.cd # Absent /\ Len(FindFilenames(resp.cd)) > 0
    THEN "output_folder/" \o FindFilenames(resp.cd)[1]
    ELSE "output_folder/download"

\* get_filename_from_response, lines 181-188: the file name, or None when
\* the function raises.
get_filename_from_response(resp) ==
    IF resp.cd # Absent /\ Len(FindFilenames(resp.cd)) > 0
    THEN "output_folder/" \o FindFilenames(resp.cd)[1]
    ELSE None

\* Mutant: the cap is off by one.
TooManyDatasets_off(dataset_ids) == Len(dataset_ids) > MaxBatch + 1

\* download_datasets, line 304.
TooManyDatasets(dataset_ids) == Len(dataset_ids) > MaxBatch

\* download_file, lines 193-214, on what rest_request handed back; ok says
\* whether the download ended without an exception.
DownloadFile(resp) ==
    IF resp.kind = "exception" THEN [ok |-> FALSE, file |-> None]
    ELSE LET filename == get_filename_from_response(resp)
         IN  IF filename = None THEN [ok |-> FALSE, file |-> None]
             ELSE [ok |-> TRUE, file |-> filename]

\* The file system and the log after DownloadFile ended as d.
WriteFile(d) ==
    /\ files' = IF d.ok THEN files \cup {d.file} ELSE files
    /\ nWrites' = IF d.ok THEN nWrites + 1 ELSE nWrites

(* ------------------ download_datasets_from_ids, 346-387 ---------------- *)

\* Mutant: the check that some id argument was given is skipped.
NoIdGiven_never(a) == FALSE

\* Line 356: no id argument was given.
NoIdGiven(a) ==
    a.dataset_ids = "" /\ a.dataset_id = "" /\ a.study_id = "" /\ a.subject_id = ""

\* Lines 368-379: the download that follows the optional batch from a file;
\* pc "done" when there is none.
SecondStage(a) ==
    IF a.dataset_id # "" THEN
        [pc |-> "ids_single", req |-> DownloadRequest(a.dataset_id, a.format)]
    ELSE IF a.study_id # "" /\ a.subject_id = "" THEN
        [pc |-> "ids_study", req |-> StudyDownloadRequest(a.study_id, a.format)]
    ELSE IF a.study_id = "" /\ a.subject_id # "" THEN
        [pc |-> "ids_subject", req |-> SubjectLookupRequest(a.subject_id)]
    ELSE IF a.study_id # "" /\ a.subject_id # "" THEN
        [pc |-> "ids_subject_study",
         req |-> SubjectStudyLookupRequest(a.subject_id, a.study_id)]
    ELSE [pc |-> "done", req |-> NoRequest]

\* Go on with stage st: enter rest_request for it, or return from the function.
Continue(st) ==
    IF st.pc = "done" THEN EndProgram("done") ELSE StartRequest(st.pc, st.req)

\* Lines 348-369: up to the first request of the id mode.
download_datasets_from_ids ==
    /\ pc = "ids"
    /\ IF args.dataset_ids # "" /\ ~FileExists(idfile) THEN
          \* line 352
          /\ EndProgram("exit1")
          /\ out' = out \cup {"Error: given file does not exist"}
       ELSE IF NoIdGiven(args) THEN
          \* lines 357-359
          /\ EndProgram("exit0")
          /\ out' = out \cup {"Either datasetId, studyId or subjectId must be given", "help"}
       ELSE IF args.dataset_ids # "" THEN
          \* lines 363-366 and download_datasets, 304-312
          IF TooManyDatasets(idfile) THEN
             /\ Continue(SecondStage(args))
             /\ out' = out \cup {"Cannot download more than 50 datasets at once"}
          ELSE
             /\ StartRequest("ids_batch", MassiveDownloadRequest(idfile, args.format))
             /\ out' = out
       ELSE
          /\ Continue(SecondStage(args))
          /\ out' = out
    /\ UNCHANGED <<proxyVars, args, idfile, tokenVars, counters, attempted, loopVars, fileVars>>

\* Lines 313 and 368-379: the batch from the file came back.  An exception
\* ends the function at the handlers of lines 380-385.
download_datasets_return ==
    /\ pc = "ids_batch"
    /\ rr = "done"
    /\ LET d == DownloadFile(response) IN
       /\ WriteFile(d)
       /\ IF d.ok THEN Continue(SecondStage(args)) /\ out' = out
          ELSE EndProgram("done") /\ out' = out \cup {"error"}
    /\ UNCHANGED <<proxyVars, args, idfile, tokenVars, counters, attempted, loopVars>>

\* Lines 300, 321, 313: a single download, a download by study, or the batch
\* that follows a lookup came back; the function returns after it.
download_return ==
    /\ pc \in {"ids_single", "ids_study", "ids_lookup_batch"}
    /\ rr = "done"
    /\ LET d == DownloadFile(response) IN
       /\ WriteFile(d)
       /\ out' = IF d.ok THEN out ELSE out \cup {"error"}
    /\ EndProgram("done")
    /\ UNCHANGED <<proxyVars, args, idfile, tokenVars, counters, attempted, loopVars>>

\* Lines 328/334 and 338/343: the lookup came back; its list goes to
\* download_datasets.
find_dataset_ids_return ==
    /\ pc \in {"ids_subject", "ids_subject_study"}
    /\ rr = "done"
    /\ IF response.kind = "exception" \/ ~response.json.ok THEN
          /\ EndProgram("done")
          /\ out' = out \cup {"error"}
       ELSE IF TooManyDatasets(response.json.val) THEN
          /\ EndProgram("done")
          /\ out' = out \cup {"Cannot download more than 50 datasets at once"}
       ELSE
          /\ StartRequest("ids_lookup_batch",
                          MassiveDownloadRequest(response.json.val, args.format))
          /\ out' = out
    /\ UNCHANGED <<proxyVars, args, idfile, tokenVars, counters, attempted, loopVars, fileVars>>

(* ----------------------------- search mode ----------------------------- *)

\* Mutant: the handlers are around the loop, so a failure ends it.
NextItem_abort(i, n, raised) == IF i < n /\ ~raised THEN i + 1 ELSE 0

\* The loop of download_search_results, lines 441-449: the index of the item
\* that follows item i of n, 0 when the loop is over.  raised says whether the
\* download of item i raised; the handlers are inside the loop.
NextItem(i, n, raised) == IF i < n THEN i + 1 ELSE 0

\* Enter the download of item i of page, or end the loop.
DownloadItem(page, i) ==
    IF i = 0 THEN EndProgram("done") /\ idx' = 0
    ELSE /\ StartRequest("item", DownloadRequest(page[i], args.format))
         /\ idx' = i

\* Lines 433-435 and 439-443: the search came back.  An exception is not
\* caught: the process ends with a traceback.
download_search_results ==
    /\ pc = "solr_search"
    /\ rr = "done"
    /\ IF response.kind = "exception" THEN
          /\ EndProgram("crashed")
          /\ UNCHANGED <<items, idx>>
       ELSE IF response.status = 200 THEN
          IF ~response.json.ok THEN
             /\ EndProgram("crashed")
             /\ UNCHANGED <<items, idx>>
          ELSE
             /\ items' = response.json.val
             /\ DownloadItem(items', NextItem(0, Len(items'), FALSE))
       ELSE
          /\ EndProgram("done")
          /\ UNCHANGED <<items, idx>>
    /\ UNCHANGED <<proxyVars, args, idfile, tokenVars, counters, attempted, failed, fileVars, out>>

\* Lines 443-449: the download of item idx came back; go on with the next.
download_item_return ==
    /\ pc = "item"
    /\ rr = "done"
    /\ LET d == DownloadFile(response) IN
       /\ WriteFile(d)
       /\ failed' = IF d.ok THEN failed ELSE failed \cup {idx}
       /\ out' = IF d.ok THEN out ELSE out \cup {"error"}
       /\ DownloadItem(items, NextItem(idx, Len(items), ~d.ok))
    /\ UNCHANGED <<proxyVars, args, idfile, items, tokenVars, counters, attempted>>

(* ------------------------- __main__, 453-467 --------------------------- *)

\* Line 464.
AnyIdArgument(a) ==
    \E v \in {a.dataset_id, a.dataset_ids, a.study_id, a.subject_id} : v # None

Main ==
    /\ pc = "main"
    /\ IF args.search_text \notin {None, ""} THEN
          /\ StartRequest("solr_search", SolrRequest(args.search_text))
          /\ out' = out
       ELSE IF AnyIdArgument(args) THEN
          /\ pc' = "ids"
          /\ UNCHANGED <<rr, req, headers, response, trace, out>>
       ELSE
          /\ EndProgram("done")
          /\ out' = out \cup {"You must either provide the search_text argument"}
    /\ UNCHANGED <<proxyVars, args, idfile, tokenVars, counters, attempted, loopVars, fileVars>>

Next ==
    \/ Main
    \/ download_datasets_from_ids
    \/ download_datasets_return
    \/ download_return
    \/ find_dataset_ids_return
    \/ download_search_results
    \/ download_item_return
    \/ rest_request_token
    \/ rest_request_send
    \/ rest_request_refresh
    \/ rest_request_retry

Spec == Init /\ [][Next]_vars

(* ------------------- rest_request called on its own -------------------- *)

\* The arguments of one call of rest_request, line 245: any request type,
\* raise_for_status given or left at its default.
CallRequests ==
    {[Request(t, "datasets/download", "7", "", [NoParams EXCEPT !.format = "nii"], "")
         EXCEPT !.raise_for_status = f] :
        t \in {"get", "post", "put"}, f \in BOOLEAN}

\* The token state a call may find: nothing stored yet, or the tokens left
\* by earlier calls.
TokenStates ==
    {<<InitialAccessToken, InitialRefreshToken>>} \cup (AccessTokens \X RefreshTokens)

\* One call of rest_request; the counters count the exchanges of this call.
InitCall ==
    /\ args = [search_text |-> None, dataset_id |-> "", dataset_ids |-> "",
               study_id |-> "", subject_id |-> "", format |-> "nifti"]
    /\ idfile = <<Absent>>
    /\ pc = "call"
    /\ \E ts \in TokenStates : access_token = ts[1] /\ refresh_token = ts[2]
    /\ rr = "entry"
    /\ req \in CallRequests
    /\ headers = NoHeaders
    /\ response = NoResponse
    /\ items = <<>>
    /\ idx = 0
    /\ trace = <<>>
    /\ nPassword = 0
    /\ nGranted = 0
    /\ nRefresh = 0
    /\ nApi = 0
    /\ n401 = 0
    /\ attempted = {}
    /\ failed = {}
    /\ files = {}
    /\ nWrites = 0
    /\ out = {}
    /\ ProxyDisabled

NextCall ==
    \/ rest_request_token
    \/ rest_request_send
    \/ rest_request_refresh
    \/ rest_request_retry

SpecCall == InitCall /\ [][NextCall]_vars

(* ---------------- initialize reading proxy.properties ------------------ *)

\* The program at the call of initialize, line 460, with --proxy_url not
\* given: the configuration folder holds any of the files of ProxyFiles.
InitProxy ==
    /\ args = [search_text |-> None, dataset_id |-> "7", dataset_ids |-> "",
               study_id |-> "", subject_id |-> "", format |-> "nifti"]
    /\ idfile = <<Absent>>
    /\ pc = "initialize"
    /\ access_token = InitialAccessToken
    /\ refresh_token = InitialRefreshToken
    /\ rr = "none"
    /\ req = NoRequest
    /\ headers = NoHeaders
    /\ response = NoResponse
    /\ items = <<>>
    /\ idx = 0
    /\ trace = <<>>
    /\ nPassword = 0
    /\ nGranted = 0
    /\ nRefresh = 0
    /\ nApi = 0
    /\ n401 = 0
    /\ attempted = {}
    /\ failed = {}
    /\ files = {}
    /\ nWrites = 0
    /\ out = {}
    /\ proxy_settings \in ProxyFiles
    /\ lineno = 0
    /\ proxy_config = EmptyDict
    /\ proxy_url = None
    /\ proxies = NoProxies

NextProxy ==
    \/ initialize_line
    \/ initialize_return

SpecProxy == InitProxy /\ [][NextProxy]_vars

(* ------------------------------ claims --------------------------------- *)

IsApi(e) == e.ep = "api"
IsPasswordGrant(e) == e.ep = "token" /\ e.grant = "password"
IsRefreshGrant(e) == e.ep = "token" /\ e.grant = "refresh_token"
Last(tr) == tr[Len(tr)]
MassiveDownload == "datasets/massiveDownload"
TooManyWarning == "Cannot download more than 50 datasets at once"

\* C1: no HTTP attempt to an API endpoint is issued while the stored access
\* token is absent, and whenever the process has issued an API attempt a
\* password grant has completed successfully before it.
C1_TokenBeforeApi ==
    /\ \A i \in 1..Len(trace) : IsApi(trace[i]) => trace[i].stored # None
    /\ nApi > 0 => nGranted >= 1
    /\ rr \in {"refresh", "retry"} => access_token # None

\* The first API attempt of the process, right after the password grant.
C1_Witness ==
    /\ nApi = 1
    /\ nPassword = 1
    /\ Len(trace) = 2
    /\ IsPasswordGrant(trace[1])
    /\ IsApi(trace[2])

\* C2: one logical call of rest_request issues at most two HTTP attempts to
\* the API endpoint, whatever the statuses answered.
C2_AtMostTwoAttempts == Len(ApiEvents(trace)) <= 2

\* A logical call answered 401 on both attempts.
C2_Witness ==
    /\ rr = "done"
    /\ Len(ApiEvents(trace)) = 2
    /\ \A i \in 1..2 : ApiEvents(trace)[i].status = 401

\* C3: one logical call makes at most one refresh-grant call; after the
\* reissued request nothing more is sent, and a 401 answer to it reaches the
\* caller as a raised HTTP error when raise_for_status is true.
C3_SingleRefresh ==
    /\ Len(RefreshEvents(trace)) <= 1
    /\ Len(ApiEvents(trace)) = 2 => rr \in {"done", "none"}
    /\ ( /\ rr = "done"
         /\ Len(ApiEvents(trace)) = 2
         /\ ~Last(trace).raised
         /\ Last(trace).status = 401
         /\ req.raise_for_status )
       => /\ response.kind = "exception"
          /\ response.exc = "HTTPError"
          /\ response.status = 401

\* The reissued request was answered 401 and the caller got the HTTP error.
C3_Witness ==
    /\ rr = "done"
    /\ Len(RefreshEvents(trace)) = 1
    /\ Len(ApiEvents(trace)) = 2
    /\ Last(trace).status = 401
    /\ response.exc = "HTTPError"

\* C4: the process issues at most one password-grant call, and never more
\* refresh-grant calls than it received 401 answers from API endpoints.
C4_GrantCounts ==
    /\ nPassword <= 1
    /\ nRefresh <= n401

\* Several logical calls, two of them refreshed, after one password grant.
C4_Witness ==
    /\ nPassword = 1
    /\ nRefresh = 2
    /\ n401 = 3
    /\ pc = "item"
    /\ idx = 2

\* C5: the first attempt carries the bearer of the token the password grant
\* returned; after a 401 and a refresh the reissued request carries the
\* bearer of the refreshed token, with the same method, url and options, and
\* the caller observes the answer to the reissued request.
C5_RoundTrip ==
    /\ \A i \in 1..(Len(trace) - 1) :
          (IsPasswordGrant(trace[i]) /\ IsApi(trace[i + 1]))
          => trace[i + 1].auth = "Bearer " \o trace[i].tok
    /\ \A i \in 1..(Len(trace) - 2) :
          (IsApi(trace[i]) /\ IsRefreshGrant(trace[i + 1]) /\ IsApi(trace[i + 2]))
          => /\ trace[i].status = 401
             /\ trace[i + 2].auth = "Bearer " \o trace[i + 1].tok
             /\ trace[i + 2].rtype = trace[i].rtype
             /\ trace[i + 2].url = trace[i].url
             /\ trace[i + 2].params = trace[i].params
             /\ trace[i + 2].data = trace[i].data
             /\ (rr = "done" /\ ~trace[i + 2].raised)
                => /\ response.status = trace[i + 2].status
                   /\ response.cd = trace[i + 2].cd

\* Token A, refresh token R, a 401, refreshed token B, and the answer 200 to
\* the reissued request handed to the caller.
C5_Witness ==
    /\ rr = "done"
    /\ Len(trace) = 4
    /\ IsPasswordGrant(trace[1]) /\ trace[1].tok = "A"
    /\ refresh_token = "R"
    /\ trace[2].auth = "Bearer A" /\ trace[2].status = 401
    /\ IsRefreshGrant(trace[3]) /\ trace[3].tok = "B" /\ trace[3].rt = "R"
    /\ trace[4].auth = "Bearer B" /\ trace[4].status = 200
    /\ response.kind = "response"
    /\ response.status = 200

\* C6: download_datasets called with more than 50 identifiers issues no
\* network call and writes no file: no POST to the mass-download endpoint
\* ever carries more than 50 identifiers; a run whose only work is a file of
\* more than 50 identifiers makes no HTTP call at all and warns; and after a
\* lookup that answered more than 50 identifiers nothing more is sent.
C6_BatchCap ==
    /\ [](/\ \A i \in 1..Len(trace) :
                trace[i].url.path = MassiveDownload
                => Len(trace[i].params.datasetIds) <= 50
          /\ (rr # "none" /\ req.url.path = MassiveDownload)
             => Len(req.params.datasetIds) <= 50
          /\ ( /\ args.search_text = None
               /\ args.dataset_ids # ""
               /\ idfile # <<Absent>>
               /\ Len(idfile) > 50
               /\ args.dataset_id = "" /\ args.study_id = "" /\ args.subject_id = "" )
             => /\ nPassword = 0 /\ nRefresh = 0 /\ nApi = 0
                /\ nWrites = 0 /\ files = {}
                /\ pc \in {"main", "ids", "done"}
                /\ pc = "done" => TooManyWarning \in out)
    /\ [][( /\ rr = "done"
            /\ req.url.path \in LookupPaths
            /\ response.kind = "response"
            /\ response.json.ok
            /\ Len(response.json.val) > 50 )
          => /\ pc' = "done"
             /\ rr' = "none"
             /\ TooManyWarning \in out'
             /\ UNCHANGED <<counters, trace, fileVars>>]_vars

\* The run given only a file of 51 identifiers has ended with the warning.
C6_Witness ==
    /\ pc = "done"
    /\ args.search_text = None
    /\ args.dataset_id = "" /\ args.study_id = "" /\ args.subject_id = ""
    /\ Len(idfile) = 51
    /\ TooManyWarning \in out
    /\ nApi = 0 /\ nPassword = 0

\* C7: in download_search_results a failure while downloading item k does
\* not prevent the attempts for the items after it: when the loop is over
\* every item of the page got at least one download request attempt, and
\* while it runs every item before the current one got one.
C7_EveryItemAttempted ==
    /\ (pc = "done" /\ args.search_text # None) => attempted = 1..Len(items)
    /\ pc = "item" => /\ idx \in 1..Len(items)
                      /\ 1..(idx - 1) \subseteq attempted
                      /\ failed \subseteq 1..idx
    /\ failed \subseteq attempted

\* The first item of a page of two failed and the second was downloaded.
C7_Witness ==
    /\ pc = "done"
    /\ Len(items) = 2
    /\ failed = {1}
    /\ attempted = {1, 2}
    /\ nWrites = 1

\* C8: a run given neither search_text nor any id argument makes no HTTP
\* call and ends having printed usage guidance.
C8_NoModeNoNetwork ==
    ( /\ args.search_text = None
      /\ args.dataset_id = "" /\ args.dataset_ids = ""
      /\ args.study_id = "" /\ args.subject_id = "" )
    => /\ nPassword = 0 /\ nRefresh = 0 /\ nApi = 0
       /\ trace = <<>>
       /\ rr = "none"
       /\ pc \in {"main", "ids", "exit0", "done"}
       /\ pc \in {"exit0", "done"}
          => \/ "help" \in out
             \/ "You must either provide the search_text argument" \in out

\* The run without any mode has ended after printing the help.
C8_Witness ==
    /\ pc = "exit0"
    /\ args.search_text = None
    /\ args.dataset_id = "" /\ args.dataset_ids = ""
    /\ args.study_id = "" /\ args.subject_id = ""
    /\ "help" \in out
    /\ nPassword + nRefresh + nApi = 0

\* The subject lookup answered 51 identifiers and the run has ended.
C6_LookupWitness ==
    /\ pc = "done"
    /\ req.url.path \in LookupPaths
    /\ response.kind = "response"
    /\ Len(response.json.val) = 51
    /\ TooManyWarning \in out

\* A password grant of the current logical call answered with a non-200.
PasswordGrantRefused(i) ==
    /\ IsPasswordGrant(trace[i])
    /\ ~trace[i].raised
    /\ trace[i].status # 200

\* C9: when the password grant is answered with a non-200 status the
\* process terminates: no exception reaches the caller of rest_request, no
\* token is stored, and no request is issued afterwards.
C9_RefusedGrantTerminates ==
    /\ [](\A i \in 1..Len(trace) :
             PasswordGrantRefused(i)
             => /\ pc = "exit1"
                /\ rr = "none"
                /\ response.kind = "none"
                /\ access_token = None
                /\ refresh_token = None
                /\ i = Len(trace)
                /\ nGranted = 0)
    /\ [][pc = "exit1" => (pc' = "exit1" /\ UNCHANGED <<counters, trace, tokenVars>>)]_vars

\* The password grant was answered 401 and the process has exited.
C9_Witness ==
    /\ pc = "exit1"
    /\ Len(trace) = 1
    /\ PasswordGrantRefused(1)
    /\ trace[1].status = 401
    /\ "Failed to connect" \in out

\* C10: a password-grant answer whose error_description is 'Invalid user
\* credentials' makes the process report 'bad username or password', not the
\* connectivity error, and terminate, whatever the HTTP status.
C10_BadCredentialsReported ==
    \A i \in 1..Len(trace) :
        ( /\ IsPasswordGrant(trace[i])
          /\ ~trace[i].raised
          /\ trace[i].err = "Invalid user credentials" )
        => /\ pc = "exit1"
           /\ "bad username or password" \in out
           /\ "Failed to connect" \notin out


\* C11 as stated: the download by study, like the two downloads by subject,
\* is made by the batch path, a POST to the mass-download endpoint.
C11_AllDelegateToBatch ==
    pc \in {"ids_study", "ids_lookup_batch"}
    => \A i \in 1..Len(trace) :
          IsApi(trace[i])
          => /\ trace[i].rtype = "post"
             /\ trace[i].url.path = MassiveDownload

\* C11, amended: download_dataset_by_subject and
\* download_dataset_by_subject_id_study_id first look the identifiers up with
\* a GET and hand the list answered to download_datasets, whose download is
\* the POST to the mass-download endpoint with at most 50 identifiers;
\* download_dataset_by_study makes no lookup and does not use the batch path:
\* its download is one GET to the by-study endpoint with the study id.
C11_SubjectDelegatesStudyDirect ==
    /\ []( /\ (pc \in {"ids_subject", "ids_subject_study"})
              => /\ req.rtype = "get"
                 /\ req.url.path \in LookupPaths
                 /\ req.url.a = args.subject_id
           /\ pc = "ids_lookup_batch"
              => /\ req.rtype = "post"
                 /\ req.url.path = MassiveDownload
                 /\ Len(req.params.datasetIds) <= 50
                 /\ \A i \in 1..Len(trace) :
                       IsApi(trace[i]) => /\ trace[i].rtype = "post"
                                          /\ trace[i].url.path = MassiveDownload
           /\ pc = "ids_study"
              => /\ req.rtype = "get"
                 /\ req.url.path = "datasets/massiveDownloadByStudy"
                 /\ req.params.studyId = args.study_id
                 /\ req.params.datasetIds = <<>>
                 /\ \A i \in 1..Len(trace) :
                       IsApi(trace[i]) => /\ trace[i].rtype = "get"
                                          /\ trace[i].url = req.url )
    /\ [][( /\ pc \in {"ids_subject", "ids_subject_study"}
            /\ rr = "done"
            /\ response.kind = "response"
            /\ response.json.ok
            /\ Len(response.json.val) <= 50 )
          => /\ pc' = "ids_lookup_batch"
             /\ rr' = "entry"
             /\ req'.params.datasetIds = response.json.val]_vars

\* The batch that follows a lookup by subject was answered.
C11_Witness ==
    /\ pc = "ids_lookup_batch"
    /\ rr = "done"
    /\ response.kind = "response"
    /\ Len(req.params.datasetIds) = 50
    /\ args.subject_id # ""


\* C12 as stated: with raise_for_status true an HTTP error is raised exactly
\* when the final response of the call (the retry's if a retry happened, else
\* the first) has an error status; with raise_for_status false the final
\* response is returned.
C12_RaisesIffFinalError ==
    ( /\ rr = "done"
      /\ Len(ApiEvents(trace)) > 0
      /\ ~Last(ApiEvents(trace)).raised )
    => LET final == Last(ApiEvents(trace)) IN
       IF req.raise_for_status
       THEN (response.exc = "HTTPError") <=> (400 <= final.status /\ final.status < 600)
       ELSE /\ response.kind = "response"
            /\ response.status = final.status

\* C12, amended: when the call ends with an API response (the first one if
\* it is not a 401, else the answer to the reissued request), then with
\* raise_for_status true an HTTP error for that response is raised exactly
\* when its status is an error status, and with raise_for_status false that
\* response is returned; a 401 followed by a successful retry raises
\* nothing.  When the refresh made after a first 401 fails, the call ends
\* with the exception of the refresh, which is not an HTTP error.
C12_RaisesAtStatusCheck ==
    /\ ( /\ rr = "done"
         /\ trace # <<>>
         /\ IsApi(Last(trace))
         /\ ~Last(trace).raised )
       => /\ response.status = Last(trace).status
          /\ IF req.raise_for_status /\ 400 <= Last(trace).status /\ Last(trace).status < 600
             THEN response.kind = "exception" /\ response.exc = "HTTPError"
             ELSE response.kind = "response"
    /\ ( /\ rr = "done"
         /\ trace # <<>>
         /\ IsRefreshGrant(Last(trace)) )
       => /\ response.kind = "exception"
          /\ response.exc \in {"KeyError", "JSONDecodeError", Transport}

\* With raise_for_status false the 404 answer to the reissued request was
\* returned to the caller.
C12_Witness ==
    /\ rr = "done"
    /\ ~req.raise_for_status
    /\ Len(ApiEvents(trace)) = 2
    /\ Last(trace).status = 404
    /\ response.kind = "response"
    /\ response.status = 404


\* C13: only a 401 answer to the first attempt triggers a refresh and a
\* second attempt: after a transport failure or any other status of the
\* first attempt the call has made exactly one API attempt and no refresh.
C13_RetryOnlyOn401 ==
    LET api == ApiEvents(trace) IN
    /\ (Len(api) = 2 \/ Len(RefreshEvents(trace)) > 0)
       => /\ Len(api) >= 1
          /\ ~api[1].raised
          /\ api[1].status = 401
    /\ ( /\ rr = "done"
         /\ Len(api) >= 1
         /\ (api[1].raised \/ api[1].status # 401) )
       => /\ Len(api) = 1
          /\ Len(RefreshEvents(trace)) = 0

\* The first attempt failed at the transport level and the call has ended.
C13_Witness ==
    /\ rr = "done"
    /\ Len(ApiEvents(trace)) = 1
    /\ ApiEvents(trace)[1].raised
    /\ Len(RefreshEvents(trace)) = 0
    /\ response.exc = Transport


\* C14: a call of rest_request whose method is neither 'get' nor 'post' is
\* rejected: it issues no HTTP request, to the API endpoint or to the token
\* endpoint, leaves the stored tokens as they were, and ends with an error
\* for the caller.
C14_UnsupportedMethodRejected ==
    req.rtype \notin {"", "get", "post"}
    => /\ trace = <<>>
       /\ nPassword = 0 /\ nRefresh = 0 /\ nApi = 0
       /\ nGranted = 0
       /\ pc \notin {"exit0", "exit1"}
       /\ rr = "done" => response.kind = "exception"


\* C15: every HTTP attempt to an API endpoint carries the Authorization
\* header 'Bearer ' + the access token stored when the attempt is issued, and
\* no call to the token endpoint carries an Authorization header.
C15_BearerOnApiOnly ==
    \A i \in 1..Len(trace) :
        /\ IsApi(trace[i]) => trace[i].auth = "Bearer " \o trace[i].stored
        /\ trace[i].ep = "token" => trace[i].auth = Absent

\* An attempt with token A, a refresh, and the reissued attempt with token B.
C15_Witness ==
    /\ Len(trace) >= 3
    /\ IsApi(Last(trace))
    /\ Last(trace).stored = "B"
    /\ IsRefreshGrant(trace[Len(trace) - 1])
    /\ IsApi(trace[Len(trace) - 2])
    /\ trace[Len(trace) - 2].stored = "A"


\* C16: a successful refresh stores the refreshed token, the stored token
\* changes at no other time than when the token endpoint returns one, and the
\* first attempt of every later call carries the stored token, with no new
\* password grant and with a refresh only after that attempt is answered 401.
C16_RefreshedTokenKept ==
    /\ [][(rr = "refresh" /\ rr' = "retry")
          => access_token' = Last(trace').tok]_vars
    /\ [][access_token' # access_token
          => /\ Len(trace') = Len(trace) + 1
             /\ Last(trace').ep = "token"
             /\ access_token' = Last(trace').tok]_vars
    /\ [][(rr = "send" /\ nApi' = nApi + 1)
          => /\ Last(trace').auth = "Bearer " \o access_token
             /\ access_token' = access_token]_vars
    /\ [][nRefresh >= 1 => nPassword' = nPassword]_vars
    /\ [][nRefresh' # nRefresh
          => /\ rr = "refresh"
             /\ Len(ApiEvents(trace)) = 1
             /\ IsApi(Last(trace))
             /\ Last(trace).status = 401]_vars

\* The call for the second item, after a refresh in an earlier call, sent its
\* first attempt with the refreshed token and was answered 200.
C16_Witness ==
    /\ pc = "item"
    /\ idx = 2
    /\ rr = "done"
    /\ nRefresh = 1
    /\ nPassword = 1
    /\ Len(trace) = 1
    /\ IsApi(trace[1])
    /\ trace[1].auth = "Bearer B"
    /\ trace[1].status = 200
    /\ access_token = "B"


\* C17: when a download response has no Content-Disposition header, or one
\* without a file name, the download raises: no file is written, no HTTP
\* request follows for that item, and the error is logged by the handler of
\* the item loop (which goes on with the next item) or by the handler of the
\* id mode (which ends the run).
C17_MissingFilenameRaises ==
    [][( /\ rr = "done"
         /\ pc \in {"item", "ids_single", "ids_study", "ids_batch", "ids_lookup_batch"}
         /\ response.kind = "response"
         /\ response.cd \in {Absent, "attachment"} )
       => /\ UNCHANGED <<fileVars, counters>>
          /\ "error" \in out'
          /\ pc = "item" => /\ idx \in failed'
                            /\ ~(pc' = "item" /\ idx' = idx)
                            /\ pc' \in {"item", "done"}
          /\ pc # "item" => (pc' = "done" /\ rr' = "none")]_vars

\* A single download answered 200 with a Content-Disposition header that
\* names no file has ended the run with a logged error and no file.
C17_Witness ==
    /\ pc = "done"
    /\ args.search_text = None
    /\ req.url.path = "datasets/download"
    /\ response.kind = "response"
    /\ response.status = 200
    /\ response.cd = "attachment"
    /\ nWrites = 0
    /\ files = {}
    /\ "error" \in out

\* The value a properties file gives a key: the text between the first '='
\* of the last line "proxy.<key>=..." and the line end.
IsProperty(line, key) ==
    Len(line) >= 5 /\ SubSeq(line, 1, 4) = <<"proxy", ".", key, "=">>
HasProperty(f, key) == \E i \in 1..Len(f) : IsProperty(f[i], key)
PropertyOf(f, key) ==
    LET i == CHOOSE k \in 1..Len(f) :
                 IsProperty(f[k], key) /\ \A j \in (k + 1)..Len(f) : ~IsProperty(f[j], key)
    IN Join(SubSeq(f[i], 5, Len(f[i]) - 1))

\* The file of the scenario: enabled=true, user=u, password=p, host=h,
\* port=8080.
ScenarioFile ==
    <<ProxyLine("enabled", <<"true">>), ProxyLine("user", <<"u">>),
      ProxyLine("password", <<"p">>), ProxyLine("host", <<"h">>),
      ProxyLine("port", <<"8080">>)>>

\* The scenario of C18 taken alone: initialize returns with the proxy URL
\* 'http://u:p@h:8080' under the key 'http' and no other key.
C18_Scenario ==
    (pc \in {"main", "crash"} /\ proxy_settings.exists
     /\ proxy_settings.lines \in {ScenarioFile, <<CommentLine>> \o ScenarioFile})
    => (pc = "main" /\ proxies = ("http" :> "http://u:p@h:8080"))

\* C18: when initialize has read a proxy.properties file that sets
\* proxy.enabled=true and gives non-empty user, password, host and port, it
\* returns, and the proxies of the configuration hold the one key 'http' with
\* the value 'http://' + user + ':' + password + '@' + host + ':' + port.
C18_ProxyUrlFromFile ==
    LET f == proxy_settings.lines IN
    ( /\ pc \in {"main", "crash"}
      /\ proxy_settings.exists
      /\ HasProperty(f, "enabled") /\ PropertyOf(f, "enabled") = "true"
      /\ \A k \in {"user", "password", "host", "port"} :
            HasProperty(f, k) /\ PropertyOf(f, k) # "" )
    => /\ pc = "main"
       /\ DOMAIN proxies = {"http"}
       /\ proxies["http"] = "http://" \o PropertyOf(f, "user") \o ":"
                               \o PropertyOf(f, "password") \o "@"
                               \o PropertyOf(f, "host") \o ":" \o PropertyOf(f, "port")

\* C19: when the refresh made after a 401 yields no access token, the call
\* ends there with the exception handed to its caller, no request is issued
\* after the refresh in that call, both stored tokens are left as they were,
\* and no password grant is issued in that step or at any time after a
\* refresh.
C19_FailedRefreshPropagates ==
    /\ [][(nRefresh' = nRefresh + 1 /\ Last(trace').tok = Absent)
          => /\ rr = "refresh"
             /\ IsApi(Last(trace))
             /\ Last(trace).status = 401
             /\ rr' = "done"
             /\ response'.kind = "exception"
             /\ response'.exc \in {"KeyError", "JSONDecodeError", Transport}
             /\ UNCHANGED <<access_token, refresh_token, nApi, nPassword, fileVars>>]_vars
    /\ [](\A i \in 1..Len(trace) :
             (IsRefreshGrant(trace[i]) /\ trace[i].tok = Absent)
             => /\ i = Len(trace)
                /\ rr \in {"done", "none"}
                /\ response.kind = "exception")
    /\ [][nRefresh >= 1 => nPassword' = nPassword]_vars

\* The call for the second item ended in the KeyError of a refresh answered
\* 401 without access_token, after the call for the first item ended the same
\* way; the one password grant of the process is the initial one.
C19_Witness ==
    /\ pc = "item"
    /\ idx = 2
    /\ rr = "done"
    /\ nRefresh = 2
    /\ nPassword = 1
    /\ nApi = 3
    /\ Len(trace) = 2
    /\ IsApi(trace[1])
    /\ trace[1].status = 401
    /\ IsRefreshGrant(trace[2])
    /\ ~trace[2].raised
    /\ trace[2].status = 401
    /\ trace[2].tok = Absent
    /\ response.exc = "KeyError"
    /\ access_token = "A"
    /\ refresh_token = "R"
    /\ 1 \in failed

\* C20: the stored refresh token changes only in the step of a password
\* grant answered 200, to the refresh token of that answer; the process issues
\* at most one password grant; and every refresh grant sends the stored
\* refresh token and leaves it as it was, whatever refresh token its answer
\* carries.
C20_RefreshTokenWrittenOnce ==
    /\ [][refresh_token' # refresh_token
          => /\ nPassword' = nPassword + 1
             /\ IsPasswordGrant(Last(trace'))
             /\ ~Last(trace').raised
             /\ Last(trace').status = 200
             /\ refresh_token' = Last(trace').newrt]_vars
    /\ [](nPassword <= 1)
    /\ [][nRefresh' = nRefresh + 1
          => /\ IsRefreshGrant(Last(trace'))
             /\ Last(trace').rt = refresh_token
             /\ refresh_token' = refresh_token]_vars
    /\ [][nPassword >= 1 => refresh_token' = refresh_token]_vars

\* The second refresh of the process sent the refresh token R of the password
\* grant and R is still stored, though the answer carries the refresh token S.
C20_Witness ==
    /\ nPassword = 1
    /\ nRefresh = 2
    /\ trace # <<>>
    /\ IsRefreshGrant(Last(trace))
    /\ Last(trace).rt = "R"
    /\ Last(trace).newrt = "S"
    /\ Last(trace).status = 200
    /\ refresh_token = "R"

====
